---- MODULE Spec2Model ----
(***************************************************************************)
(* state-zen: the runtime transition engine (src/src/core).                *)
(*                                                                         *)
(* A RuntimeStateMachine owns a blueprint, a current State and one pending *)
(* transition slot.  event_happen resolves an event to a staged transition *)
(* and transform applies the staged transition and fires the callbacks.    *)
(*                                                                         *)
(* Closures (guards, regions, transfers, callbacks) are opaque to the      *)
(* engine.  A closure is modelled by its graph over the State domain       *)
(* together with the set of arguments on which it panics (unwinds).        *)
(***************************************************************************)
EXTENDS Integers, Sequences, FiniteSets, TLC

(***************************************************************************)
(* Bounds of the model.                                                    *)
(***************************************************************************)
\* aspect values range over 0..MaxValue (0 is Idle, 1 is Walk)
MaxValue == 1
\* a blueprint declares at most MaxTransitions transitions
MaxTransitions == 2
\* a blueprint declares at most MaxObservers observers
MaxObservers == 2
\* a run makes at most MaxCalls calls of event_happen / transform
MaxCalls == 3
\* an operand of merge declares at most MaxMerged transitions and observers
MaxMerged == 2
\* the longest run of events (event_happen, then transform) of a scenario
MaxEvents == 4
\* the longest run of hunger events (Eat, Starve) of a scenario
MaxHungerEvents == 11
\* the longest run of calls made on a machine with observers
MaxObserverCalls == 6
\* the most transitions and the most observers of an operand of a merge that
\* is handed to a runtime
MaxOperandItems == 1
\* the longest run of events (event_happen, then transform) on that runtime
MaxMergedEvents == 1
\* the longest run of calls made on two runtimes side by side
MaxTwinCalls == 2
\* the longest run of events (event_happen, then transform) on a runtime built
\* from a split blueprint
MaxSplitEvents == 2

(***************************************************************************)
(* Identifiers used by the repository's blueprints.                        *)
(***************************************************************************)
ACTION_ASPECT_ID == 1
PRESS_W == 100
PRESS_S == 101
HUNGER_ASPECT_ID == 2
EAT == 200
STARVE == 201

VARIABLES
    blueprint,           \* RuntimeStateMachine.blueprint
    current_state,       \* RuntimeStateMachine.current_state
    pending_transition,  \* RuntimeStateMachine.pending_transition
    calls,               \* history: one record per completed or unwound call
    lab                  \* operands and results of the blueprint operations
                         \* (merge) that run before a runtime is constructed

vars == <<blueprint, current_state, pending_transition, calls, lab>>

(***************************************************************************)
(* Option<T>                                                               *)
(***************************************************************************)
None == <<>>
Some(x) == <<x>>
IsSome(o) == o /= None
Unwrap(o) == o[1]

(***************************************************************************)
(* State: HashMap<StateAspectId, Arc<dyn Any>>.  A state either binds the  *)
(* action aspect to a value or lacks the aspect.                           *)
(***************************************************************************)
NoAspects == [k \in {} |-> 0]
WithValue(v) == [k \in {ACTION_ASPECT_ID} |-> v]
State == {NoAspects} \cup {WithValue(v) : v \in 0..MaxValue}
HasAspect(s) == ACTION_ASPECT_ID \in DOMAIN s

(***************************************************************************)
(* StateInRange: a boolean closure over State.                             *)
(***************************************************************************)
StateInRangeNew(f, p) == [predicate |-> f, panics |-> p]

\* contains unwinds when the wrapped closure panics on the state
containsUnwinds(range, state) == state \in range.panics

contains(range, state) == range.predicate[state]

\* faulty variant: the wrapped range is returned as it is
not_returns_self(range) == range

\* StateInRange::new(move |s| !self.contains(s))
not(range) ==
    StateInRangeNew([s \in State |-> ~contains(range, s)], range.panics)

\* faulty variant: both operands are evaluated (& in place of &&)
and_evaluates_both(range, other) ==
    StateInRangeNew([s \in State |-> contains(range, s) /\ contains(other, s)],
                    range.panics \cup other.panics)

\* StateInRange::new(move |s| self.contains(s) && other.contains(s)); && calls
\* other.contains only when self.contains returned true
and(range, other) ==
    StateInRangeNew([s \in State |-> contains(range, s) /\ contains(other, s)],
                    range.panics \cup
                        {s \in State \ range.panics :
                            contains(range, s) /\ containsUnwinds(other, s)})

(***************************************************************************)
(* Transfer: a closure State -> State.                                     *)
(***************************************************************************)
TransferNew(f, p) == [func |-> f, panics |-> p]

applyUnwinds(transfer, state) == state \in transfer.panics

apply(transfer, state) == transfer.func[state]

(***************************************************************************)
(* Callbacks: Arc<dyn Fn(&State)> and Arc<dyn Fn(&State, &State)>.  A      *)
(* callback is observed through the log of its invocations; it either      *)
(* returns or panics.                                                      *)
(***************************************************************************)
Callback(p) == [panics |-> p]
Returns == Callback(FALSE)
Panicking == Callback(TRUE)

(***************************************************************************)
(* Closures supplied by blueprint authors.                                 *)
(***************************************************************************)
\* StateInRange::new(|_| true)
always == StateInRangeNew([s \in State |-> TRUE], {})

\* s.get(&1).and_then(downcast).map_or(false, |a| *a == v)
is_value(v) ==
    StateInRangeNew([s \in State |-> HasAspect(s) /\ s[ACTION_ASPECT_ID] = v], {})

\* the same test with an unchecked access: panics when the aspect is missing
unchecked_is_value(v) ==
    StateInRangeNew([s \in State |-> HasAspect(s) /\ s[ACTION_ASPECT_ID] = v],
                    {NoAspects})

\* new_s = s.clone(); new_s.insert(1, v)
set_value(v) == TransferNew([s \in State |-> WithValue(v)], {})

\* s.clone(): the next state equals the previous one
keep == TransferNew([s \in State |-> s], {})

\* (current + 1).min(MaxValue) with an unchecked access to the aspect
unchecked_step ==
    TransferNew([s \in State |->
                    IF HasAspect(s)
                    THEN WithValue(IF s[ACTION_ASPECT_ID] < MaxValue
                                   THEN s[ACTION_ASPECT_ID] + 1
                                   ELSE MaxValue)
                    ELSE s],
                {NoAspects})

(***************************************************************************)
(* Transition, StateObserver, StateMachineBlueprint                        *)
(***************************************************************************)
Transition(id, event_id, guard, transfer, priority, on_tran) ==
    [id |-> id, event_id |-> event_id, guard |-> guard, transfer |-> transfer,
     priority |-> priority, on_tran |-> on_tran]

StateObserver(id, region, on_enter, on_exit) ==
    [id |-> id, region |-> region, on_enter |-> on_enter, on_exit |-> on_exit]

StateMachineBlueprint(aspects, events, transitions, observers) ==
    [aspects |-> aspects, events |-> events,
     transitions |-> transitions, observers |-> observers]

\* transitions a blueprint author may declare (the id is given on declaration)
TransitionLib ==
    { Transition(0, PRESS_W, is_value(0), set_value(1), 0, Some(Returns)),
      Transition(0, PRESS_W, always, keep, 1, Some(Returns)),
      Transition(0, PRESS_W, unchecked_is_value(1), set_value(0), 1, None),
      Transition(0, PRESS_S, always, unchecked_step, 0, Some(Panicking)) }

\* observers a blueprint author may declare
ObserverLib ==
    { StateObserver(0, is_value(1), Some(Returns), Some(Returns)),
      StateObserver(0, is_value(0), Some(Panicking), None),
      StateObserver(0, unchecked_is_value(0), None, Some(Returns)) }

\* declarations are numbered in declaration order, as the repository's blueprints do
Declared(items) == [i \in DOMAIN items |-> [items[i] EXCEPT !.id = i]]

SeqsUpTo(S, n) == UNION {[1..k -> S] : k \in 0..n}

Blueprints ==
    { StateMachineBlueprint(
          [a \in {ACTION_ASPECT_ID} |-> [id |-> a, value_type_id |-> "Action"]],
          [e \in {PRESS_W, PRESS_S} |-> [id |-> e, payload_type_id |-> "()"]],
          Declared(ts), Declared(os)) :
        ts \in SeqsUpTo(TransitionLib, MaxTransitions),
        os \in SeqsUpTo(ObserverLib, MaxObservers) }

EventIds == {PRESS_W, PRESS_S}
Payloads == {None, Some(0)}


(***************************************************************************)
(* StateMachineBlueprint::new and StateMachineBlueprint::merge             *)
(***************************************************************************)
\* HashMap::new()
EmptyMap == [k \in {} |-> 0]

blueprint_new == StateMachineBlueprint(EmptyMap, EmptyMap, <<>>, <<>>)

\* faulty variant: an entry already present is kept (entry().or_insert)
insert_all_keeps_existing(map, other) ==
    [k \in DOMAIN map \cup DOMAIN other |-> IF k \in DOMAIN map THEN map[k] ELSE other[k]]

\* faulty variant: the other map replaces the map
insert_all_replaces(map, other) == other

\* for (k, v) in &other.. { map.insert(*k, v.clone()); }
insert_all(map, other) ==
    [k \in DOMAIN map \cup DOMAIN other |-> IF k \in DOMAIN other THEN other[k] ELSE map[k]]

\* faulty variant: an item whose id is already declared is dropped
extend_skips_declared_ids(vec, other) ==
    vec \o SelectSeq(other, LAMBDA x : \A i \in 1..Len(vec) : vec[i].id /= x.id)

\* faulty variant: the first item of the other list is lost (off by one)
extend_skips_first(vec, other) ==
    vec \o SubSeq(other, 2, Len(other))

\* faulty variant: other's items are put in front
extend_prepends(vec, other) == other \o vec

\* vec.extend(other.iter().cloned())
extend(vec, other) == vec \o other

\* faulty variant: the clone lists the transitions and observers in reverse
clone_reverses_lists(bp) ==
    [bp EXCEPT !.transitions = [i \in DOMAIN @ |-> @[Len(@) + 1 - i]],
               !.observers = [i \in DOMAIN @ |-> @[Len(@) + 1 - i]]]

\* #[derive(Clone)] for StateMachineBlueprint
clone(bp) == bp

\* faulty variant: the receiver is returned as it is
merge_returns_receiver(this, other) == this

\* StateMachineBlueprint::merge(&self, other: &Self) -> Self
merge(this, other) ==
    StateMachineBlueprint(insert_all(this.aspects, other.aspects),
                          insert_all(this.events, other.events),
                          extend(this.transitions, other.transitions),
                          extend(this.observers, other.observers))

\* faulty variant: merge extends the receiver in place
call_merge_in_place(this, other) ==
    [this |-> merge(this, other), other |-> other, returned |-> merge(this, other)]

\* a call this.merge(&other): both operands are borrowed immutably (&self,
\* &Self) and cloned field by field; the call leaves them as they are
call_merge(this, other) ==
    [this |-> this, other |-> other, returned |-> merge(this, other)]

(***************************************************************************)
(* RuntimeStateMachine.  The struct is the record [current_state,          *)
(* pending_transition]; the blueprint never changes and is passed along.   *)
(* A call yields the runtime it leaves behind, the callbacks it invoked    *)
(* and whether it returned or unwound (a closure panicked).                *)
(***************************************************************************)
Runtime(state, pending) == [current_state |-> state, pending_transition |-> pending]

Outcome(rt, fired, unwound) == [rt |-> rt, fired |-> fired, unwound |-> unwound]

\* RuntimeStateMachine::new
new(initial_state) == Runtime(initial_state, None)

(***************************************************************************)
(* event_happen                                                            *)
(***************************************************************************)
\* faulty variant: the filter forgets the event id
matches_ignores_event_id(t, event_id, state) ==
    contains(t.guard, state)

\* faulty variant: the filter forgets the guard
matches_ignores_guard(t, event_id, state) ==
    t.event_id = event_id

\* the filter closure: t.event_id == event_id && t.guard.contains(&self.current_state)
matches(t, event_id, state) ==
    t.event_id = event_id /\ contains(t.guard, state)

\* the guard is evaluated only for a matching event id (&& short-circuits)
matchesUnwinds(t, event_id, state) ==
    t.event_id = event_id /\ containsUnwinds(t.guard, state)

candidates(transitions, event_id, state) ==
    SelectSeq(transitions, LAMBDA t : matches(t, event_id, state))

\* faulty variant: an unstable sort, equal priorities come out reversed
InsertByPriority_unstable(sorted, t) ==
    LET before == Cardinality({i \in 1..Len(sorted) : sorted[i].priority > t.priority})
    IN SubSeq(sorted, 1, before) \o <<t>> \o SubSeq(sorted, before + 1, Len(sorted))

\* slice::sort_by is stable: an element goes after the elements that compare
\* less or equal, here those of greater or equal priority
InsertByPriority(sorted, t) ==
    LET before == Cardinality({i \in 1..Len(sorted) : sorted[i].priority >= t.priority})
    IN SubSeq(sorted, 1, before) \o <<t>> \o SubSeq(sorted, before + 1, Len(sorted))

RECURSIVE sort_by(_)
sort_by(ts) ==
    IF ts = <<>> THEN <<>>
    ELSE InsertByPriority(sort_by(SubSeq(ts, 1, Len(ts) - 1)), ts[Len(ts)])

\* candidates.first().cloned().cloned()
first(ts) == IF ts = <<>> THEN None ELSE Some(ts[1])

\* faulty variant: an event without a winner leaves the earlier winner staged
stage_keeps_earlier(rt, winner) ==
    IF winner = None THEN rt ELSE [rt EXCEPT !.pending_transition = winner]

\* self.pending_transition = ...
stage(rt, winner) == [rt EXCEPT !.pending_transition = winner]

\* faulty variant: the winner is applied at once
event_happen_applies_winner(bp, rt, event_id, payload) ==
    IF \E i \in 1..Len(bp.transitions) :
           matchesUnwinds(bp.transitions[i], event_id, rt.current_state)
    THEN Outcome(rt, <<>>, TRUE)
    ELSE LET winner == first(sort_by(candidates(bp.transitions, event_id,
                                                rt.current_state)))
         IN IF winner = None THEN Outcome(stage(rt, winner), <<>>, FALSE)
            ELSE IF applyUnwinds(Unwrap(winner).transfer, rt.current_state)
            THEN Outcome(rt, <<>>, TRUE)
            ELSE Outcome([current_state |->
                              apply(Unwrap(winner).transfer, rt.current_state),
                          pending_transition |-> winner],
                         <<>>, FALSE)

\* faulty variant: the slot is emptied before the guards are evaluated
event_happen_clears_first(bp, rt, event_id, payload) ==
    IF \E i \in 1..Len(bp.transitions) :
           matchesUnwinds(bp.transitions[i], event_id, rt.current_state)
    THEN Outcome(stage(rt, None), <<>>, TRUE)
    ELSE Outcome(stage(rt, first(sort_by(candidates(bp.transitions, event_id,
                                                    rt.current_state)))),
                 <<>>, FALSE)

\* faulty variant: an event that carries a payload is not resolved
event_happen_reads_payload(bp, rt, event_id, payload) ==
    IF \E i \in 1..Len(bp.transitions) :
           matchesUnwinds(bp.transitions[i], event_id, rt.current_state)
    THEN Outcome(rt, <<>>, TRUE)
    ELSE Outcome(stage(rt, IF payload = None
                           THEN first(sort_by(candidates(bp.transitions, event_id,
                                                         rt.current_state)))
                           ELSE None),
                 <<>>, FALSE)

event_happen(bp, rt, event_id, payload) ==
    IF \E i \in 1..Len(bp.transitions) :
           matchesUnwinds(bp.transitions[i], event_id, rt.current_state)
    THEN Outcome(rt, <<>>, TRUE)
    ELSE Outcome(stage(rt, first(sort_by(candidates(bp.transitions, event_id,
                                                    rt.current_state)))),
                 <<>>, FALSE)

(***************************************************************************)
(* transform                                                               *)
(***************************************************************************)
Indices(s) == [i \in 1..Len(s) |-> i]

Invocation(kind, observer, callback, args) ==
    [kind |-> kind, observer |-> observer, callback |-> callback, args |-> args]

\* faulty variant: the slot is read (as_ref) and not emptied
take_leaves_slot(rt) == rt

\* self.pending_transition.take()
take(rt) == [rt EXCEPT !.pending_transition = None]

was_in(observer, state) == contains(observer.region, state)
now_in(observer, next_state) == contains(observer.region, next_state)

\* faulty variant: on_exit is collected for every observer that was inside
on_exits_ignores_now_in(observers, state, next_state) ==
    LET exiting == SelectSeq(Indices(observers), LAMBDA i :
                       /\ was_in(observers[i], state)
                       /\ IsSome(observers[i].on_exit))
    IN [k \in 1..Len(exiting) |->
           Invocation("on_exit", exiting[k], Unwrap(observers[exiting[k]].on_exit),
                      <<state>>)]

\* the on_exit callbacks collected by the observer loop, in blueprint order
on_exits(observers, state, next_state) ==
    LET exiting == SelectSeq(Indices(observers), LAMBDA i :
                       /\ was_in(observers[i], state)
                       /\ ~now_in(observers[i], next_state)
                       /\ IsSome(observers[i].on_exit))
    IN [k \in 1..Len(exiting) |->
           Invocation("on_exit", exiting[k], Unwrap(observers[exiting[k]].on_exit),
                      <<state>>)]

\* faulty variant: on_enter is handed the state before the transition
on_enters_previous_state(observers, state, next_state) ==
    LET entering == SelectSeq(Indices(observers), LAMBDA i :
                        /\ ~was_in(observers[i], state)
                        /\ now_in(observers[i], next_state)
                        /\ IsSome(observers[i].on_enter))
    IN [k \in 1..Len(entering) |->
           Invocation("on_enter", entering[k], Unwrap(observers[entering[k]].on_enter),
                      <<state>>)]

\* the on_enter callbacks collected by the observer loop, in blueprint order
on_enters(observers, state, next_state) ==
    LET entering == SelectSeq(Indices(observers), LAMBDA i :
                        /\ ~was_in(observers[i], state)
                        /\ now_in(observers[i], next_state)
                        /\ IsSome(observers[i].on_enter))
    IN [k \in 1..Len(entering) |->
           Invocation("on_enter", entering[k], Unwrap(observers[entering[k]].on_enter),
                      <<next_state>>)]

\* faulty variant: on_tran fires only when the state changes
on_tran_only_on_change(transition, state, next_state) ==
    IF IsSome(transition.on_tran) /\ state /= next_state
    THEN <<Invocation("on_tran", 0, Unwrap(transition.on_tran), <<state, next_state>>)>>
    ELSE <<>>

\* if let Some(on_tran) = &transition.on_tran { on_tran(&self.current_state, &next_state) }
on_tran(transition, state, next_state) ==
    IF IsSome(transition.on_tran)
    THEN <<Invocation("on_tran", 0, Unwrap(transition.on_tran), <<state, next_state>>)>>
    ELSE <<>>

\* faulty variant: the enter callbacks run before the transition callback
ExecutionOrder_enter_first(exits, tran, enters) == exits \o enters \o tran

\* 执行顺序: OnExit -> OnTran -> OnEnter
ExecutionOrder(exits, tran, enters) == exits \o tran \o enters

\* both region evaluations of some observer panic the loop
observersUnwind(observers, state, next_state) ==
    \E i \in 1..Len(observers) :
        \/ containsUnwinds(observers[i].region, state)
        \/ containsUnwinds(observers[i].region, next_state)

\* the callbacks are invoked in order; a panicking callback ends the call.
\* Each invocation is logged with the runtime's current_state at that moment.
Invoke(rt, invocations) ==
    LET panicking == {k \in 1..Len(invocations) : invocations[k].callback.panics}
        last == IF panicking = {} THEN Len(invocations)
                ELSE CHOOSE k \in panicking : \A j \in panicking : k <= j
    IN Outcome(rt,
               [k \in 1..last |->
                   [kind |-> invocations[k].kind,
                    observer |-> invocations[k].observer,
                    args |-> invocations[k].args,
                    current_state |-> rt.current_state]],
               panicking /= {})

\* faulty variant: the next state is dropped
commit_keeps_current_state(rt, next_state) == rt

\* self.current_state = next_state
commit(rt, next_state) == [rt EXCEPT !.current_state = next_state]

transform(bp, rt) ==
    IF rt.pending_transition = None THEN Outcome(rt, <<>>, FALSE)
    ELSE
      LET transition == Unwrap(rt.pending_transition)
          taken == take(rt)
      IN IF applyUnwinds(transition.transfer, taken.current_state)
         THEN Outcome(taken, <<>>, TRUE)
         ELSE
           LET next_state == apply(transition.transfer, taken.current_state)
           IN IF observersUnwind(bp.observers, taken.current_state, next_state)
              THEN Outcome(taken, <<>>, TRUE)
              ELSE
                LET ran == Invoke(taken,
                               ExecutionOrder(
                                   on_exits(bp.observers, taken.current_state, next_state),
                                   on_tran(transition, taken.current_state, next_state),
                                   on_enters(bp.observers, taken.current_state, next_state)))
                IN IF ran.unwound THEN ran
                   ELSE Outcome(commit(ran.rt, next_state), ran.fired, FALSE)

(***************************************************************************)
(* The state machine: a caller constructs the runtime and then calls       *)
(* event_happen and transform in any order.                                *)
(***************************************************************************)
self == Runtime(current_state, pending_transition)

Call(op, event_id, out) ==
    [op |-> op, event_id |-> event_id, pre |-> self, post |-> out.rt,
     fired |-> out.fired, unwound |-> out.unwound]

Init ==
    /\ blueprint \in Blueprints
    /\ \E initial_state \in State :
          /\ current_state = new(initial_state).current_state
          /\ pending_transition = new(initial_state).pending_transition
    /\ calls = <<>>
    /\ lab = <<>>

Returned(op, event_id, out) ==
    /\ current_state' = out.rt.current_state
    /\ pending_transition' = out.rt.pending_transition
    /\ calls' = Append(calls, Call(op, event_id, out))
    /\ UNCHANGED <<blueprint, lab>>

EventHappen(event_id, payload) ==
    /\ Len(calls) < MaxCalls
    /\ Returned("event_happen", event_id, event_happen(blueprint, self, event_id, payload))

Transform ==
    /\ Len(calls) < MaxCalls
    /\ Returned("transform", 0, transform(blueprint, self))

Next ==
    \/ \E event_id \in EventIds, payload \in Payloads : EventHappen(event_id, payload)
    \/ Transform

Spec == Init /\ [][Next]_vars


(***************************************************************************)
(* Vocabulary of the properties.  They are stated over the history of      *)
(* calls and over the blueprint's declarations, not over the engine's      *)
(* operators.                                                              *)
(***************************************************************************)
Transitions == blueprint.transitions
Observers == blueprint.observers

\* the declared transitions with event id e whose guard holds in state s
Eligible(e, s) ==
    {i \in 1..Len(Transitions) :
        Transitions[i].event_id = e /\ Transitions[i].guard.predicate[s]}

\* an event_happen call that returned
Resolved(c) == c.op = "event_happen" /\ ~c.unwound

\* a transform call that found a staged transition
Applying(c) == c.op = "transform" /\ c.pre.pending_transition /= None

\* a transform call that committed its staged transition
Committed(c) == Applying(c) /\ ~c.unwound

\* how often the call invoked the given callback of the i-th observer
Fires(c, kind, i) ==
    Cardinality({a \in 1..Len(c.fired) :
                    c.fired[a].kind = kind /\ c.fired[a].observer = i})

Rank(kind) ==
    CASE kind = "on_exit" -> 1 [] kind = "on_tran" -> 2 [] kind = "on_enter" -> 3

(***************************************************************************)
(* C1: every event_happen(E) that returns stages, among the declared       *)
(* transitions with event id E whose guard holds in current_state, one of  *)
(* highest priority, and among those of highest priority the one declared  *)
(* earliest.                                                               *)
(***************************************************************************)
C1_StagesHighestPriorityEarliestDeclared ==
    \A k \in 1..Len(calls) :
        LET c == calls[k]
            E == Eligible(c.event_id, c.pre.current_state)
        IN (Resolved(c) /\ E /= {}) =>
              \E w \in E :
                  /\ c.post.pending_transition = Some(Transitions[w])
                  /\ \A j \in E :
                        \/ Transitions[j].priority < Transitions[w].priority
                        \/ /\ Transitions[j].priority = Transitions[w].priority
                           /\ w <= j

\* an event with two satisfied candidates of equal priority staged the earlier one
C1_Witness ==
    \E k \in 1..Len(calls) :
        LET c == calls[k]
            E == Eligible(c.event_id, c.pre.current_state)
        IN /\ Resolved(c)
           /\ \E i, j \in E :
                 /\ i < j
                 /\ Transitions[i].priority = Transitions[j].priority
                 /\ Transitions[i] /= Transitions[j]
                 /\ c.post.pending_transition = Some(Transitions[i])

(***************************************************************************)
(* C2: when no declared transition has event id E and a guard satisfied by *)
(* current_state, event_happen(E) followed by transform() leaves           *)
(* current_state unchanged and neither call invokes a callback.            *)
(***************************************************************************)
C2_NoSatisfiedGuardNoEffect ==
    \A k \in 1..(Len(calls) - 1) :
        LET e == calls[k]
            t == calls[k + 1]
        IN (/\ Resolved(e)
            /\ t.op = "transform"
            /\ Eligible(e.event_id, e.pre.current_state) = {}) =>
              /\ t.post.current_state = e.pre.current_state
              /\ ~t.unwound
              /\ e.fired = <<>>
              /\ t.fired = <<>>

\* the pair ran for an event whose only declared transitions had a failing guard
C2_Witness ==
    \E k \in 1..(Len(calls) - 1) :
        LET e == calls[k]
            t == calls[k + 1]
        IN /\ Resolved(e)
           /\ t.op = "transform"
           /\ Eligible(e.event_id, e.pre.current_state) = {}
           /\ \E i \in 1..Len(Transitions) : Transitions[i].event_id = e.event_id
           /\ t.post.current_state = e.pre.current_state

(***************************************************************************)
(* C3: within one transform() the callbacks run on_exit, then on_tran,     *)
(* then on_enter; the on_exit callbacks and the on_enter callbacks each    *)
(* run in the blueprint's declaration order of their observers.            *)
(***************************************************************************)
C3_ExitThenTranThenEnter ==
    \A k \in 1..Len(calls) :
        LET c == calls[k]
        IN c.op = "transform" =>
              \A a, b \in 1..Len(c.fired) :
                  a < b =>
                     \/ Rank(c.fired[a].kind) < Rank(c.fired[b].kind)
                     \/ /\ c.fired[a].kind = c.fired[b].kind
                        /\ c.fired[a].observer < c.fired[b].observer

\* one transform() invoked an on_exit, the on_tran and an on_enter
C3_Witness ==
    \E k \in 1..Len(calls) :
        LET c == calls[k]
        IN /\ Committed(c)
           /\ Len(c.fired) = 3
           /\ c.fired[1].kind = "on_exit"
           /\ c.fired[2].kind = "on_tran"
           /\ c.fired[3].kind = "on_enter"

(***************************************************************************)
(* C4: for every committed transition and every observer, the observer's   *)
(* on_exit (when it has one) fires exactly once if its region held before  *)
(* and not after, its on_enter (when it has one) fires exactly once if the *)
(* region held after and not before, and no other callback of it fires; in *)
(* particular none fires when the region's truth value is unchanged.       *)
(***************************************************************************)
C4_ObserverFiresOncePerFlip ==
    \A k \in 1..Len(calls) :
        LET c == calls[k]
        IN Committed(c) =>
              \A i \in 1..Len(Observers) :
                  LET was == Observers[i].region.predicate[c.pre.current_state]
                      now == Observers[i].region.predicate[c.post.current_state]
                  IN /\ Fires(c, "on_exit", i) =
                           (IF was /\ ~now /\ IsSome(Observers[i].on_exit) THEN 1 ELSE 0)
                     /\ Fires(c, "on_enter", i) =
                           (IF ~was /\ now /\ IsSome(Observers[i].on_enter) THEN 1 ELSE 0)

\* a committed transition took the state out of an observer's region
C4_Witness ==
    \E k \in 1..Len(calls) :
        LET c == calls[k]
        IN /\ Committed(c)
           /\ \E i \in 1..Len(Observers) :
                 /\ Observers[i].region.predicate[c.pre.current_state]
                 /\ ~Observers[i].region.predicate[c.post.current_state]
                 /\ Fires(c, "on_exit", i) = 1
                 /\ Fires(c, "on_enter", i) = 0

(***************************************************************************)
(* C5: during a transform() with staged transition t, current_state has    *)
(* its pre-transition value at every callback; on_exit receives the        *)
(* pre-state, on_tran the pre-state and next_state = t.transfer applied to *)
(* the pre-state, on_enter receives next_state; when the call returns,     *)
(* current_state is next_state.                                            *)
(***************************************************************************)
C5_CallbacksSeePreStateThenCommit ==
    \A k \in 1..Len(calls) :
        LET c == calls[k]
        IN Applying(c) =>
              LET pre == c.pre.current_state
                  next == Unwrap(c.pre.pending_transition).transfer.func[pre]
              IN /\ \A a \in 1..Len(c.fired) :
                        /\ c.fired[a].current_state = pre
                        /\ c.fired[a].kind = "on_exit" => c.fired[a].args = <<pre>>
                        /\ c.fired[a].kind = "on_tran" => c.fired[a].args = <<pre, next>>
                        /\ c.fired[a].kind = "on_enter" => c.fired[a].args = <<next>>
                 /\ ~c.unwound => c.post.current_state = next

\* a committed transition changed the state and invoked an on_exit, the on_tran and an on_enter
C5_Witness ==
    \E k \in 1..Len(calls) :
        LET c == calls[k]
        IN /\ Committed(c)
           /\ c.post.current_state /= c.pre.current_state
           /\ current_state = c.post.current_state
           /\ \E a, b, d \in 1..Len(c.fired) :
                 /\ c.fired[a].kind = "on_exit"
                 /\ c.fired[b].kind = "on_tran"
                 /\ c.fired[d].kind = "on_enter"


(***************************************************************************)
(* C6: event_happen overwrites the pending slot with the new winner or     *)
(* with none: after event_happen(E1); event_happen(E2) the slot holds a    *)
(* satisfied candidate of E2, or nothing when E2 has none, and a           *)
(* transform() that follows applies that candidate, or nothing.            *)
(***************************************************************************)
C6_LaterEventOverwritesPending ==
    \A k \in 2..Len(calls) :
        LET e1 == calls[k - 1]
            e2 == calls[k]
            s == e2.pre.current_state
            E == Eligible(e2.event_id, s)
        IN (e1.op = "event_happen" /\ Resolved(e2)) =>
              /\ E = {} => e2.post.pending_transition = None
              /\ E /= {} => \E w \in E : e2.post.pending_transition = Some(Transitions[w])
              /\ (k < Len(calls) /\ calls[k + 1].op = "transform") =>
                    LET t == calls[k + 1]
                    IN /\ E = {} => (t.post.current_state = s /\ t.fired = <<>>)
                       /\ (E /= {} /\ ~t.unwound) =>
                             \E w \in E :
                                 t.post.current_state = Transitions[w].transfer.func[s]

\* E1 staged a winner, E2 had no satisfied candidate, and transform() applied nothing
C6_Witness ==
    /\ Len(calls) = 3
    /\ Resolved(calls[1])
    /\ calls[1].post.pending_transition /= None
    /\ Resolved(calls[2])
    /\ Eligible(calls[2].event_id, calls[2].pre.current_state) = {}
    /\ calls[2].post.pending_transition = None
    /\ calls[3].op = "transform"
    /\ calls[3].fired = <<>>
    /\ current_state = calls[1].pre.current_state

(***************************************************************************)
(* C7: the pending slot is either empty (Idle) or holds one declared       *)
(* transition (Resolved); the runtime starts Idle, every transform() that  *)
(* returns leaves it Idle, and a transform() called while Idle changes     *)
(* nothing and invokes no callback.                                        *)
(***************************************************************************)
C7_IdleResolvedProtocol ==
    /\ \/ pending_transition = None
       \/ \E i \in 1..Len(Transitions) : pending_transition = Some(Transitions[i])
    /\ calls = <<>> => pending_transition = None
    /\ \A k \in 1..Len(calls) :
          LET c == calls[k]
          IN c.op = "transform" =>
                /\ ~c.unwound => c.post.pending_transition = None
                /\ c.pre.pending_transition = None =>
                      (c.post = c.pre /\ c.fired = <<>> /\ ~c.unwound)

\* a transform() that committed was followed directly by a second transform()
C7_Witness ==
    \E k \in 1..(Len(calls) - 1) :
        /\ Committed(calls[k])
        /\ calls[k].post.current_state /= calls[k].pre.current_state
        /\ calls[k + 1].op = "transform"
        /\ calls[k + 1].post = calls[k].post
        /\ pending_transition = None

(***************************************************************************)
(* C8: a transform() that commits applies the staged transfer exactly once *)
(* to the pre-state and empties the slot, also when the new state          *)
(* satisfies the guard of a transition for the same event; the number of   *)
(* committed transitions never exceeds the number of event_happen calls.   *)
(***************************************************************************)
C8_OneTransferPerCallPair ==
    /\ Cardinality({k \in 1..Len(calls) : Committed(calls[k])})
          <= Cardinality({k \in 1..Len(calls) : calls[k].op = "event_happen"})
    /\ \A k \in 1..Len(calls) :
          LET c == calls[k]
          IN Committed(c) =>
                /\ c.post.current_state =
                      Unwrap(c.pre.pending_transition).transfer.func[c.pre.current_state]
                /\ c.post.pending_transition = None

\* the committed state satisfies the guard of a transition for the same event
\* whose transfer would have moved the state again
C8_Witness ==
    \E k \in 1..Len(calls) :
        LET c == calls[k]
        IN /\ Committed(c)
           /\ \E j \in Eligible(Unwrap(c.pre.pending_transition).event_id,
                                c.post.current_state) :
                 Transitions[j].transfer.func[c.post.current_state]
                     /= c.post.current_state
           /\ current_state = c.post.current_state

(***************************************************************************)
(* C9: a transform() that commits a transition with an on_tran callback    *)
(* invokes it exactly once, whether or not an observer callback fires and  *)
(* also when the transfer returns a state equal to the pre-state; no       *)
(* transform() invokes it more than once.                                  *)
(***************************************************************************)
C9_OnTranFiresOnce ==
    \A k \in 1..Len(calls) :
        LET c == calls[k]
        IN Applying(c) =>
              /\ Fires(c, "on_tran", 0) <= 1
              /\ Committed(c) =>
                    Fires(c, "on_tran", 0) =
                        (IF IsSome(Unwrap(c.pre.pending_transition).on_tran) THEN 1 ELSE 0)

\* the transfer returned the pre-state, no observer fired, and on_tran ran once
C9_Witness ==
    \E k \in 1..Len(calls) :
        LET c == calls[k]
        IN /\ Committed(c)
           /\ Observers /= <<>>
           /\ c.post.current_state = c.pre.current_state
           /\ Len(c.fired) = 1
           /\ c.fired[1].kind = "on_tran"

(***************************************************************************)
(* C10: a transform() that unwinds (the transfer, a region or a callback   *)
(* panicked) leaves current_state and the pending slot as they were before *)
(* the call.                                                               *)
(***************************************************************************)
C10_UnwoundTransformLeavesRuntimeAsBefore ==
    \A k \in 1..Len(calls) :
        LET c == calls[k]
        IN (c.op = "transform" /\ c.unwound) =>
              /\ c.post.current_state = c.pre.current_state
              /\ c.post.pending_transition = c.pre.pending_transition


(***************************************************************************)
(* C11: an event_happen() that unwinds because a guard panicked leaves     *)
(* current_state and the pending slot unchanged, so a transition staged by *)
(* an earlier event_happen is still pending.                               *)
(***************************************************************************)
C11_UnwoundEventHappenLeavesRuntimeAsBefore ==
    \A k \in 1..Len(calls) :
        LET c == calls[k]
        IN (c.op = "event_happen" /\ c.unwound) =>
              /\ c.post.current_state = c.pre.current_state
              /\ c.post.pending_transition = c.pre.pending_transition
              /\ c.fired = <<>>

\* a guard panicked while a transition staged by an earlier event was pending
C11_Witness ==
    \E k \in 2..Len(calls) :
        /\ Resolved(calls[k - 1])
        /\ calls[k].op = "event_happen"
        /\ calls[k].unwound
        /\ calls[k].pre.pending_transition /= None
        /\ pending_transition = calls[k - 1].post.pending_transition

(***************************************************************************)
(* C12: the payload of event_happen has no observable effect: in every     *)
(* reachable state and for every event id, a call with a payload gives the *)
(* same staged transition as the call without one (hence any two payloads  *)
(* give the same), and the transform() that follows gives the same         *)
(* current_state and the same callbacks.                                   *)
(***************************************************************************)
C12_PayloadHasNoEffect ==
    \A event_id \in EventIds : \A p \in Payloads \ {None} :
        LET with_p == event_happen(blueprint, self, event_id, p)
            without == event_happen(blueprint, self, event_id, None)
        IN /\ with_p = without
           /\ transform(blueprint, with_p.rt) = transform(blueprint, without.rt)

\* an event staged a transition, whatever its payload, and transform() committed it
C12_Witness ==
    /\ Len(calls) >= 2
    /\ Resolved(calls[1])
    /\ calls[1].post.pending_transition /= None
    /\ \A p \in Payloads :
          event_happen(blueprint, calls[1].pre, calls[1].event_id, p).rt = calls[1].post
    /\ Committed(calls[2])
    /\ calls[2].fired /= <<>>


(***************************************************************************)
(* Blueprint composition.  A blueprint author holds three blueprints a, b  *)
(* and c and calls merge on them: a.merge(&b), b.merge(&a), b.merge(&c),   *)
(* (a.merge(&b)).merge(&c) and a.merge(&(b.merge(&c))).                    *)
(***************************************************************************)
StateAspect(id, value_type_id) == [id |-> id, value_type_id |-> value_type_id]
EventDef(id, payload_type_id) == [id |-> id, payload_type_id |-> payload_type_id]

\* the aspect and event declarations of an operand: none, the action
\* blueprint's, declarations that reuse its ids with other types, the hunger
\* blueprint's
DeclaredMaps ==
    { [aspects |-> EmptyMap, events |-> EmptyMap],
      [aspects |-> ACTION_ASPECT_ID :> StateAspect(ACTION_ASPECT_ID, "Action"),
       events |-> PRESS_W :> EventDef(PRESS_W, "()")],
      [aspects |-> ACTION_ASPECT_ID :> StateAspect(ACTION_ASPECT_ID, "i32"),
       events |-> PRESS_W :> EventDef(PRESS_W, "i32")],
      [aspects |-> HUNGER_ASPECT_ID :> StateAspect(HUNGER_ASPECT_ID, "i32"),
       events |-> EAT :> EventDef(EAT, "()") @@ STARVE :> EventDef(STARVE, "()")] }

\* an operand declares one transition and one observer per id of a list of
\* ids; ids may repeat within an operand and between operands
MergeOperands ==
    { StateMachineBlueprint(
          m.aspects, m.events,
          [i \in DOMAIN ids |-> Transition(ids[i], PRESS_W, always, keep, 0, None)],
          [i \in DOMAIN ids |-> StateObserver(ids[i], always, None, None)]) :
        m \in DeclaredMaps, ids \in SeqsUpTo({1, 2}, MaxMerged) }

\* the merge calls in program order: <<receiver, argument, result>>
MergeScript ==
    << <<"a", "b", "ab">>, <<"b", "a", "ba">>, <<"b", "c", "bc">>,
       <<"ab", "c", "ab_c">>, <<"a", "bc", "a_bc">> >>

InitMerge ==
    /\ blueprint = blueprint_new
    /\ current_state = NoAspects
    /\ pending_transition = None
    /\ calls = <<>>
    /\ \E a, b, c \in MergeOperands :
          lab = [given |-> [a |-> a, b |-> b, c |-> c],
                 a |-> a, b |-> b, c |-> c,
                 ab |-> blueprint_new, ba |-> blueprint_new, bc |-> blueprint_new,
                 ab_c |-> blueprint_new, a_bc |-> blueprint_new,
                 done |-> 0]

\* result = receiver.merge(&argument)
Merge(receiver, argument, result) ==
    /\ lab.done < Len(MergeScript)
    /\ MergeScript[lab.done + 1] = <<receiver, argument, result>>
    /\ LET out == call_merge(lab[receiver], lab[argument])
       IN lab' = [lab EXCEPT ![receiver] = out.this,
                             ![argument] = out.other,
                             ![result] = out.returned,
                             !.done = @ + 1]
    /\ UNCHANGED <<blueprint, current_state, pending_transition, calls>>

NextMerge ==
    \E k \in 1..Len(MergeScript) :
        Merge(MergeScript[k][1], MergeScript[k][2], MergeScript[k][3])

SpecMerge == InitMerge /\ [][NextMerge]_vars

\* the merges of two given blueprints that have been made: <<x, y, x.merge(&y)>>
MergedPairs ==
    { <<lab.given[MergeScript[k][1]], lab.given[MergeScript[k][2]], lab[MergeScript[k][3]]>> :
        k \in {j \in 1..3 : j <= lab.done} }

\* list r is list x followed by list y
Concatenates(r, x, y) ==
    /\ Len(r) = Len(x) + Len(y)
    /\ \A i \in 1..Len(x) : r[i] = x[i]
    /\ \A j \in 1..Len(y) : r[Len(x) + j] = y[j]

\* map r has the keys of x and y, y's entry where y has one and x's elsewhere
Overlays(r, x, y) ==
    /\ DOMAIN r = DOMAIN x \cup DOMAIN y
    /\ \A k \in DOMAIN y : r[k] = y[k]
    /\ \A k \in DOMAIN x \ DOMAIN y : r[k] = x[k]

\* maps x and y hold the same entry for every key they share
Agree(x, y) == \A k \in DOMAIN x \cap DOMAIN y : x[k] = y[k]

(***************************************************************************)
(* C13: the transitions of a.merge(b) are a's transitions followed by b's  *)
(* and its observers are a's observers followed by b's, each in its        *)
(* original order; nothing is dropped, so the lengths add up even when ids *)
(* repeat.                                                                 *)
(***************************************************************************)
C13_MergeConcatenatesLists ==
    \A m \in MergedPairs :
        /\ Concatenates(m[3].transitions, m[1].transitions, m[2].transitions)
        /\ Concatenates(m[3].observers, m[1].observers, m[2].observers)

\* both operands declare two transitions and share an id
C13_Witness ==
    /\ lab.done >= 1
    /\ Len(lab.given.a.transitions) = 2
    /\ Len(lab.given.b.transitions) = 2
    /\ lab.given.a.transitions[1].id /= lab.given.a.transitions[2].id
    /\ \E i, j \in 1..2 : lab.given.a.transitions[i].id = lab.given.b.transitions[j].id
    /\ Len(lab.ab.transitions) = 4
    /\ Len(lab.ab.observers) = 4

(***************************************************************************)
(* C14: the aspect map and the event map of a.merge(b) have the union of   *)
(* the operands' keys; a key of one operand only keeps that operand's      *)
(* entry and a key of both maps to b's entry.                              *)
(***************************************************************************)
C14_MergeOverlaysMaps ==
    \A m \in MergedPairs :
        /\ Overlays(m[3].aspects, m[1].aspects, m[2].aspects)
        /\ Overlays(m[3].events, m[1].events, m[2].events)

\* the operands declare the same aspect id with different entries
C14_Witness ==
    /\ lab.done >= 1
    /\ \E k \in DOMAIN lab.given.a.aspects \cap DOMAIN lab.given.b.aspects :
          /\ lab.given.a.aspects[k] /= lab.given.b.aspects[k]
          /\ lab.ab.aspects[k] = lab.given.b.aspects[k]

(***************************************************************************)
(* C15: (a.merge(b)).merge(c) and a.merge(b.merge(c)) have the same        *)
(* transition list and the same observer list.                             *)
(***************************************************************************)
C15_MergeAssociativeOnLists ==
    lab.done = Len(MergeScript) =>
        /\ lab.ab_c.transitions = lab.a_bc.transitions
        /\ lab.ab_c.observers = lab.a_bc.observers

\* three operands with declarations were merged both ways
C15_Witness ==
    /\ lab.done = Len(MergeScript)
    /\ lab.given.a.transitions /= <<>>
    /\ lab.given.b.transitions /= <<>>
    /\ lab.given.c.transitions /= <<>>
    /\ lab.given.a.transitions /= lab.given.b.transitions
    /\ lab.given.b.transitions /= lab.given.c.transitions
    /\ Len(lab.ab_c.transitions) = Len(lab.given.a.transitions)
                                   + Len(lab.given.b.transitions)
                                   + Len(lab.given.c.transitions)

(***************************************************************************)
(* C16: merge never mutates its operands: after every merge call the       *)
(* blueprints a, b and c are as they were given.                           *)
(***************************************************************************)
C16_MergeLeavesOperands ==
    /\ lab.a = lab.given.a
    /\ lab.b = lab.given.b
    /\ lab.c = lab.given.c

\* a merge returned a blueprint that differs from both of its operands
C16_Witness ==
    /\ lab.done >= 1
    /\ lab.ab /= lab.given.a
    /\ lab.ab /= lab.given.b
    /\ lab.a = lab.given.a

(***************************************************************************)
(* C17 as claimed: a.merge(b) and b.merge(a) have the same aspect map and  *)
(* the same event map, for all blueprints a and b.                         *)
(***************************************************************************)
C17_MergeCommutativeOnMaps ==
    lab.done >= 2 =>
        /\ lab.ab.aspects = lab.ba.aspects
        /\ lab.ab.events = lab.ba.events

(***************************************************************************)
(* C17 as amended: a.merge(b) and b.merge(a) have the same aspect map      *)
(* exactly when a and b hold the same entry for every aspect id they       *)
(* share, and the same event map exactly when they hold the same entry for *)
(* every event id they share.                                              *)
(***************************************************************************)
C17_MergeCommutativeOnAgreeingMaps ==
    lab.done >= 2 =>
        /\ (lab.ab.aspects = lab.ba.aspects)
              <=> Agree(lab.given.a.aspects, lab.given.b.aspects)
        /\ (lab.ab.events = lab.ba.events)
              <=> Agree(lab.given.a.events, lab.given.b.events)

\* operands with different, disjoint ids merged to the same maps both ways
C17_Witness ==
    /\ lab.done >= 2
    /\ lab.given.a.aspects /= EmptyMap
    /\ lab.given.b.aspects /= EmptyMap
    /\ DOMAIN lab.given.a.aspects \cap DOMAIN lab.given.b.aspects = {}
    /\ lab.ab.aspects = lab.ba.aspects
    /\ lab.ab.events = lab.ba.events


(***************************************************************************)
(* utils::tool::partition_range_by_transfer_target                         *)
(***************************************************************************)
\* a closure that panics on a state has no result there; its graph holds a
\* fixed value at such states
StateInRanges ==
    { StateInRangeNew(f, p) :
        f \in [State -> BOOLEAN], p \in SUBSET {NoAspects} }

Ranges == { r \in StateInRanges : \A s \in r.panics : r.predicate[s] = FALSE }

Transfers ==
    { t \in { TransferNew(f, p) : f \in [State -> State], p \in SUBSET {NoAspects} } :
        \A s \in t.panics : t.func[s] = s }

partition_range_by_transfer_target(a, b, f) ==
    LET c == StateInRangeNew(
                 [s \in State |-> contains(b, apply(f, s))],
                 {s \in State : applyUnwinds(f, s) \/ containsUnwinds(b, apply(f, s))})
    IN <<and(a, c), and(a, not(c))>>

InitPartition ==
    /\ blueprint = blueprint_new
    /\ current_state = NoAspects
    /\ pending_transition = None
    /\ calls = <<>>
    /\ \E a, b \in Ranges, f \in Transfers :
          lab = [a |-> a, b |-> b, f |-> f, returned |-> None]

\* let (in_b, not_in_b) = partition_range_by_transfer_target(a, b, f)
Partition ==
    /\ lab.returned = None
    /\ lab' = [lab EXCEPT
                 !.returned = Some(partition_range_by_transfer_target(lab.a, lab.b, lab.f))]
    /\ UNCHANGED <<blueprint, current_state, pending_transition, calls>>

NextPartition == Partition

SpecPartition == InitPartition /\ [][NextPartition]_vars

in_b == Unwrap(lab.returned)[1]
not_in_b == Unwrap(lab.returned)[2]

\* a.contains(s) returns true
InA(s) == ~containsUnwinds(lab.a, s) /\ contains(lab.a, s)

\* b.contains(&f.apply(s)) unwinds
TargetUnwinds(s) ==
    applyUnwinds(lab.f, s) \/ containsUnwinds(lab.b, apply(lab.f, s))

(***************************************************************************)
(* C18: for (in_b, not_in_b) = partition_range_by_transfer_target(a, b, f) *)
(* and every state s where a.contains(s) is true and b.contains(f.apply(s))*)
(* returns, exactly one of in_b.contains(s) and not_in_b.contains(s) is    *)
(* true, and in_b.contains(s) equals b.contains(f.apply(s)); where         *)
(* b.contains(f.apply(s)) unwinds, both returned ranges unwind as well.    *)
(***************************************************************************)
C18_PartitionSplitsByTarget ==
    lab.returned /= None =>
        \A s \in State :
            InA(s) =>
                IF TargetUnwinds(s)
                THEN containsUnwinds(in_b, s) /\ containsUnwinds(not_in_b, s)
                ELSE /\ ~containsUnwinds(in_b, s)
                     /\ ~containsUnwinds(not_in_b, s)
                     /\ contains(in_b, s) /= contains(not_in_b, s)
                     /\ contains(in_b, s) = contains(lab.b, apply(lab.f, s))

\* a holds two states that f moves, one into b and one out of b, against
\* what b says of the states themselves
C18_Witness ==
    /\ lab.returned /= None
    /\ \E s, t \in State :
          /\ InA(s) /\ InA(t)
          /\ ~TargetUnwinds(s) /\ ~TargetUnwinds(t)
          /\ apply(lab.f, s) /= s /\ apply(lab.f, t) /= t
          /\ ~containsUnwinds(lab.b, s) /\ ~contains(lab.b, s)
          /\ ~containsUnwinds(lab.b, t) /\ contains(lab.b, t)
          /\ contains(in_b, s) /\ ~contains(not_in_b, s)
          /\ ~contains(in_b, t) /\ contains(not_in_b, t)


(***************************************************************************)
(* The machines of the integration tests: the two-state action machine,    *)
(* the hunger machine and their merge, driven one event at a time          *)
(* (event_happen, then transform).                                         *)
(***************************************************************************)
\* enum Action { Idle, Walk }
Idle == 0
Walk == 1

\* the states over the action aspect and the hunger aspect (an i32 that the
\* transfers keep within 0..20); either aspect may be missing
TestState ==
    UNION { { s \in [d -> 0..20] :
                ACTION_ASPECT_ID \in d => s[ACTION_ASPECT_ID] \in {Idle, Walk} } :
            d \in SUBSET {ACTION_ASPECT_ID, HUNGER_ASPECT_ID} }

\* State::new() with the action aspect inserted
ActionOnly(a) == [k \in {ACTION_ASPECT_ID} |-> a]

\* HashMap::insert on a clone of the state
insert(s, k, v) == [x \in DOMAIN s \cup {k} |-> IF x = k THEN v ELSE s[x]]

\* s.get(&k).and_then(downcast_ref).copied()
get(s, k) == IF k \in DOMAIN s THEN Some(s[k]) ELSE None

unwrap_or(option, default) == IF option = None THEN default ELSE Unwrap(option)

min(x, y) == IF x <= y THEN x ELSE y
\* faulty variant: the floor is returned
max_returns_argument(x, y) == y

max(x, y) == IF x >= y THEN x ELSE y

is_idle ==
    StateInRangeNew([s \in TestState |->
                        get(s, ACTION_ASPECT_ID) /= None
                            /\ Unwrap(get(s, ACTION_ASPECT_ID)) = Idle], {})

is_walking ==
    StateInRangeNew([s \in TestState |->
                        get(s, ACTION_ASPECT_ID) /= None
                            /\ Unwrap(get(s, ACTION_ASPECT_ID)) = Walk], {})

\* faulty variant: the next state is built from State::new(), not from s.clone()
press_w_to_walk_from_empty_state ==
    TransferNew([s \in TestState |-> ActionOnly(Walk)], {})

\* let mut new_s = s.clone(); new_s.insert(1, Arc::new(Action::Walk)); new_s
press_w_to_walk ==
    TransferNew([s \in TestState |-> insert(s, ACTION_ASPECT_ID, Walk)], {})

press_s_to_idle ==
    TransferNew([s \in TestState |-> insert(s, ACTION_ASPECT_ID, Idle)], {})

create_player_blueprint ==
    [blueprint |->
        StateMachineBlueprint(
            ACTION_ASPECT_ID :> StateAspect(ACTION_ASPECT_ID, "Action"),
            PRESS_W :> EventDef(PRESS_W, "()") @@ PRESS_S :> EventDef(PRESS_S, "()"),
            << Transition(1, PRESS_W, is_idle, press_w_to_walk, 0, None),
               Transition(2, PRESS_S, is_walking, press_s_to_idle, 0, None) >>,
            << StateObserver(1, is_walking, None, None) >>),
     initial_state |-> ACTION_ASPECT_ID :> Idle]

is_hungry ==
    StateInRangeNew([s \in TestState |->
                        get(s, HUNGER_ASPECT_ID) /= None
                            /\ Unwrap(get(s, HUNGER_ASPECT_ID)) <= 5], {})

eat_transfer ==
    TransferNew([s \in TestState |->
                    insert(s, HUNGER_ASPECT_ID,
                           min(unwrap_or(get(s, HUNGER_ASPECT_ID), 0) + 5, 20))], {})

starve_transfer ==
    TransferNew([s \in TestState |->
                    insert(s, HUNGER_ASPECT_ID,
                           max(unwrap_or(get(s, HUNGER_ASPECT_ID), 20) - 1, 0))], {})

\* StateInRange::new(|_| true)
any_state == StateInRangeNew([s \in TestState |-> TRUE], {})

create_hunger_blueprint ==
    [blueprint |->
        StateMachineBlueprint(
            HUNGER_ASPECT_ID :> StateAspect(HUNGER_ASPECT_ID, "i32"),
            EAT :> EventDef(EAT, "()") @@ STARVE :> EventDef(STARVE, "()"),
            << Transition(3, EAT, any_state, eat_transfer, 0, None),
               Transition(4, STARVE, any_state, starve_transfer, 0, None) >>,
            << StateObserver(3, is_hungry, None, None) >>),
     initial_state |-> HUNGER_ASPECT_ID :> 10]

\* action_bp.merge(&hunger_bp) and initial_state.extend(hunger_state)
create_merged_blueprint ==
    [blueprint |->
        call_merge(create_player_blueprint.blueprint,
                   create_hunger_blueprint.blueprint).returned,
     initial_state |->
        insert_all(create_player_blueprint.initial_state,
                   create_hunger_blueprint.initial_state)]

TestEventIds == {PRESS_W, PRESS_S, EAT, STARVE}

InitTests ==
    /\ \E made \in {create_player_blueprint, create_merged_blueprint} :
          /\ blueprint = made.blueprint
          /\ current_state = new(made.initial_state).current_state
          /\ pending_transition = new(made.initial_state).pending_transition
    /\ calls = <<>>
    /\ lab = <<>>

\* runtime.event_happen(event_id, None), at the start or after a transform
TestEventHappen(event_id) ==
    /\ Len(calls) < 2 * MaxEvents
    /\ IF calls = <<>> THEN TRUE ELSE calls[Len(calls)].op = "transform"
    /\ Returned("event_happen", event_id, event_happen(blueprint, self, event_id, None))

\* runtime.transform(), after an event_happen
TestTransform ==
    /\ calls /= <<>>
    /\ calls[Len(calls)].op = "event_happen"
    /\ Returned("transform", 0, transform(blueprint, self))

NextTests ==
    \/ \E event_id \in TestEventIds : TestEventHappen(event_id)
    \/ TestTransform

SpecTests == InitTests /\ [][NextTests]_vars

\* the runtime was built from the given blueprint and initial state
BuiltFrom(made) ==
    /\ blueprint = made.blueprint
    /\ IF calls = <<>> THEN current_state = made.initial_state
                       ELSE calls[1].pre.current_state = made.initial_state

\* the first k events (each an event_happen followed by its transform) were
\* the first k of the given ones
Ran(events, k) ==
    /\ k <= Len(events)
    /\ Len(calls) >= 2 * k
    /\ \A j \in 1..k : /\ calls[2 * j - 1].op = "event_happen"
                       /\ calls[2 * j - 1].event_id = events[j]
                       /\ calls[2 * j].op = "transform"

\* current_state after the k-th event's transform
StateAfter(k) == calls[2 * k].post.current_state

ActionState(a) == ACTION_ASPECT_ID :> a
ActionHungerState(a, h) == ACTION_ASPECT_ID :> a @@ HUNGER_ASPECT_ID :> h

(***************************************************************************)
(* C19: in the two-state action machine started at Idle, PressW gives      *)
(* Walk, a second PressW leaves Walk, and PressS then gives Idle (each     *)
(* event as event_happen then transform).                                  *)
(***************************************************************************)
C19_ActionMachineScenario ==
    BuiltFrom(create_player_blueprint) =>
        \A k \in 1..3 :
            Ran(<<PRESS_W, PRESS_W, PRESS_S>>, k) =>
                StateAfter(k) = <<ActionState(Walk), ActionState(Walk), ActionState(Idle)>>[k]

\* the three events ran; the second one staged nothing
C19_Witness ==
    /\ BuiltFrom(create_player_blueprint)
    /\ Ran(<<PRESS_W, PRESS_W, PRESS_S>>, 3)
    /\ Len(calls) = 6
    /\ calls[1].post.pending_transition /= None
    /\ calls[3].post.pending_transition = None
    /\ current_state = ActionState(Idle)

(***************************************************************************)
(* C20: in the runtime built from the action blueprint merged with the     *)
(* hunger blueprint and started at (Idle, 10), PressW, Starve, PressS, Eat *)
(* (each as event_happen then transform) pass through (Walk, 10),          *)
(* (Walk, 9), (Idle, 9) and end in (Idle, 14).                             *)
(***************************************************************************)
C20_MergedMachineScenario ==
    BuiltFrom(create_merged_blueprint) =>
        \A k \in 1..4 :
            Ran(<<PRESS_W, STARVE, PRESS_S, EAT>>, k) =>
                StateAfter(k) = << ActionHungerState(Walk, 10), ActionHungerState(Walk, 9),
                                   ActionHungerState(Idle, 9), ActionHungerState(Idle, 14) >>[k]

\* the four events ran on the merged machine
C20_Witness ==
    /\ BuiltFrom(create_merged_blueprint)
    /\ Len(blueprint.transitions) = 4
    /\ Ran(<<PRESS_W, STARVE, PRESS_S, EAT>>, 4)
    /\ Len(calls) = 8
    /\ current_state = ActionHungerState(Idle, 14)


(***************************************************************************)
(* The hunger scenarios: the hunger machine alone, and the action machine  *)
(* merged with the hunger machine that carries an observer with an         *)
(* on_enter callback; both are driven by Eat and Starve events.            *)
(***************************************************************************)
\* faulty variant: the region is hunger < 5
hunger_observer_region_below_five ==
    StateInRangeNew([s \in TestState |->
                        get(s, HUNGER_ASPECT_ID) /= None
                            /\ Unwrap(get(s, HUNGER_ASPECT_ID)) < 5], {})

\* the region of observer 4: map_or(false, |h| *h <= 5)
hunger_observer_region ==
    StateInRangeNew([s \in TestState |->
                        get(s, HUNGER_ASPECT_ID) /= None
                            /\ Unwrap(get(s, HUNGER_ASPECT_ID)) <= 5], {})

\* hunger_bp.clone() with observer 4 pushed
hunger_bp_with_observer ==
    [create_hunger_blueprint.blueprint EXCEPT
        !.observers = Append(@, StateObserver(4, hunger_observer_region,
                                              Some(Returns), None))]

\* action_bp.merge(&hunger_bp_with_observer) and initial_state.extend(hunger_state)
create_observed_blueprint ==
    [blueprint |->
        call_merge(create_player_blueprint.blueprint, hunger_bp_with_observer).returned,
     initial_state |->
        insert_all(create_player_blueprint.initial_state,
                   create_hunger_blueprint.initial_state)]

HungerEventIds == {EAT, STARVE}

InitHunger ==
    /\ \E made \in {create_hunger_blueprint, create_observed_blueprint} :
          /\ blueprint = made.blueprint
          /\ current_state = new(made.initial_state).current_state
          /\ pending_transition = new(made.initial_state).pending_transition
    /\ calls = <<>>
    /\ lab = <<>>

\* runtime.event_happen(200 or 201, None), at the start or after a transform
HungerEventHappen(event_id) ==
    /\ Len(calls) < 2 * MaxHungerEvents
    /\ IF calls = <<>> THEN TRUE ELSE calls[Len(calls)].op = "transform"
    /\ Returned("event_happen", event_id, event_happen(blueprint, self, event_id, None))

\* runtime.transform(), after an event_happen
HungerTransform ==
    /\ calls /= <<>>
    /\ calls[Len(calls)].op = "event_happen"
    /\ Returned("transform", 0, transform(blueprint, self))

NextHunger ==
    \/ \E event_id \in HungerEventIds : HungerEventHappen(event_id)
    \/ HungerTransform

SpecHunger == InitHunger /\ [][NextHunger]_vars

\* the first k events were Starve events, each followed by its transform
Starved(k) == Ran([j \in 1..k |-> STARVE], k)

\* the transform of the k-th event invoked on_enter of the observer declared
\* with the given id
EnterFired(k, id) ==
    \E i \in 1..Len(Observers) :
        Observers[i].id = id /\ Fires(calls[2 * k], "on_enter", i) >= 1

(***************************************************************************)
(* C21 as claimed: in the merged action+hunger machine started at hunger   *)
(* 10, the on_enter of the observer on hunger <= 5 fires only after six    *)
(* Starve events have been applied, and not after fewer.                   *)
(***************************************************************************)
C21_EnterFiresOnlyAfterSixStarves ==
    BuiltFrom(create_observed_blueprint) =>
        \A k \in 1..MaxHungerEvents :
            Starved(k) /\ EnterFired(k, 4) => k >= 6

(***************************************************************************)
(* C21 as amended: in the merged action+hunger machine started at hunger   *)
(* 10, the on_enter of the observer on hunger <= 5 fires in the transform  *)
(* of the fifth Starve event, which brings hunger to 5, and in no other    *)
(* transform of a run of Starve events; after six Starve events hunger is  *)
(* 4.                                                                      *)
(***************************************************************************)
C21_EnterFiresAtFifthStarve ==
    BuiltFrom(create_observed_blueprint) =>
        \A k \in 1..MaxHungerEvents :
            Starved(k) =>
                /\ EnterFired(k, 4) <=> k = 5
                /\ k = 5 => StateAfter(k) = ActionHungerState(Idle, 5)
                /\ k = 6 => StateAfter(k) = ActionHungerState(Idle, 4)

\* six Starve events ran: on_enter fired in the fifth transform and hunger is 4
C21_Witness ==
    /\ BuiltFrom(create_observed_blueprint)
    /\ Starved(6)
    /\ Len(calls) = 12
    /\ EnterFired(5, 4)
    /\ ~EnterFired(6, 4)
    /\ current_state = ActionHungerState(Idle, 4)


(***************************************************************************)
(* StateInRange::and applied to two given ranges.                          *)
(***************************************************************************)
InitAnd ==
    /\ blueprint = blueprint_new
    /\ current_state = NoAspects
    /\ pending_transition = None
    /\ calls = <<>>
    /\ \E p, q \in Ranges : lab = [p |-> p, q |-> q, returned |-> None]

\* let r = p.and(q)
And ==
    /\ lab.returned = None
    /\ lab' = [lab EXCEPT !.returned = Some(and(lab.p, lab.q))]
    /\ UNCHANGED <<blueprint, current_state, pending_transition, calls>>

NextAnd == And

SpecAnd == InitAnd /\ [][NextAnd]_vars

\* range.contains(s) returns the given value
Gives(range, s, value) == ~containsUnwinds(range, s) /\ contains(range, s) = value

(***************************************************************************)
(* C22: p.and(q) is the logical conjunction of p and q and short-circuits: *)
(* where both return, (p.and(q)).contains(s) is p.contains(s) and          *)
(* q.contains(s); where p.contains(s) is false, (p.and(q)).contains(s) is  *)
(* false and q is not evaluated on s, so the result returns false even     *)
(* where q would panic.                                                    *)
(***************************************************************************)
C22_AndIsShortCircuitConjunction ==
    lab.returned /= None =>
        \A s \in State :
            /\ Gives(lab.p, s, FALSE) => Gives(Unwrap(lab.returned), s, FALSE)
            /\ \A x, y \in BOOLEAN :
                  Gives(lab.p, s, x) /\ Gives(lab.q, s, y)
                      => Gives(Unwrap(lab.returned), s, x /\ y)

\* p is false on a state where q panics and the conjunction returns false
\* there; on another state both hold and so does the conjunction
C22_Witness ==
    /\ lab.returned /= None
    /\ \E s, t \in State :
          /\ Gives(lab.p, s, FALSE)
          /\ containsUnwinds(lab.q, s)
          /\ Gives(Unwrap(lab.returned), s, FALSE)
          /\ Gives(lab.p, t, TRUE)
          /\ Gives(lab.q, t, TRUE)
          /\ Gives(Unwrap(lab.returned), t, TRUE)


(***************************************************************************)
(* Properties of the engine over every blueprint of the library (Spec).    *)
(***************************************************************************)
\* the calls of event_happen that returned
ResolvedCalls == {k \in 1..Len(calls) : Resolved(calls[k])}

\* the most recent of them
LastResolved == CHOOSE k \in ResolvedCalls : \A j \in ResolvedCalls : j <= k

\* guard.contains(state) returns true
Satisfied(t, state) == ~containsUnwinds(t.guard, state) /\ contains(t.guard, state)

(***************************************************************************)
(* C23: in every reachable state where the pending slot holds a transition *)
(* t, t is a member of blueprint.transitions, t.event_id is the event id   *)
(* of the most recent event_happen that returned, and                      *)
(* t.guard.contains(current_state) is true; so every transform() applies a *)
(* transition whose guard is satisfied by the state it is applied to.      *)
(***************************************************************************)
C23_PendingIsDeclaredMatchingAndSatisfied ==
    /\ pending_transition /= None =>
          LET t == Unwrap(pending_transition)
          IN /\ \E i \in 1..Len(Transitions) : Transitions[i] = t
             /\ ResolvedCalls /= {}
             /\ t.event_id = calls[LastResolved].event_id
             /\ Satisfied(t, current_state)
    /\ \A k \in 1..Len(calls) :
          Applying(calls[k]) =>
              Satisfied(Unwrap(calls[k].pre.pending_transition), calls[k].pre.current_state)

\* after a committed change of state an event staged a transition whose guard
\* holds in the new state, while another transition of that event was filtered
\* out by its guard
C23_Witness ==
    /\ Len(calls) = 3
    /\ Committed(calls[2])
    /\ calls[2].post.current_state /= calls[2].pre.current_state
    /\ Resolved(calls[3])
    /\ pending_transition /= None
    /\ Satisfied(Unwrap(pending_transition), current_state)
    /\ \E i \in 1..Len(Transitions) :
          /\ Transitions[i].event_id = calls[3].event_id
          /\ ~containsUnwinds(Transitions[i].guard, current_state)
          /\ ~contains(Transitions[i].guard, current_state)


\* no guard evaluated by event_happen(event_id) panics on the state
GuardsReturn(event_id, state) ==
    \A i \in 1..Len(Transitions) : ~matchesUnwinds(Transitions[i], event_id, state)

(***************************************************************************)
(* C24: event_happen changes only the pending slot: it leaves              *)
(* current_state unchanged and fires no callback, and it invokes no        *)
(* transfer and no on_tran, so it returns whenever its guards do, also     *)
(* when a transfer or callback of a candidate would panic; no call of      *)
(* event_happen or transform ever changes the blueprint.                   *)
(***************************************************************************)
C24_EventHappenOnlyStages ==
    /\ [](\A k \in 1..Len(calls) :
            calls[k].op = "event_happen" =>
                /\ calls[k].post.current_state = calls[k].pre.current_state
                /\ calls[k].fired = <<>>
                /\ GuardsReturn(calls[k].event_id, calls[k].pre.current_state)
                       => ~calls[k].unwound)
    /\ [][blueprint' = blueprint]_vars

\* event_happen staged a transition whose transfer would panic on the current
\* state and whose on_tran panics, and returned with current_state as before
C24_Witness ==
    /\ calls /= <<>>
    /\ calls[Len(calls)].op = "event_happen"
    /\ ~calls[Len(calls)].unwound
    /\ pending_transition /= None
    /\ applyUnwinds(Unwrap(pending_transition).transfer, current_state)
    /\ Unwrap(pending_transition).on_tran = Some(Panicking)
    /\ current_state = calls[Len(calls)].pre.current_state


(***************************************************************************)
(* The action machine with observers that carry both callbacks, as in      *)
(* test_observer_triggers: observers on Walk and on Idle in any order, an  *)
(* on_tran on the PressS transition that is absent or panics, started at   *)
(* Idle or at Walk and driven by event_happen and transform in any order.  *)
(***************************************************************************)
ObservedRegions == {is_walking, is_idle}

ObserverLists ==
    { Declared(regions) :
        regions \in { [i \in DOMAIN rs |-> StateObserver(0, rs[i], Some(Returns), Some(Returns))] :
                        rs \in SeqsUpTo(ObservedRegions, MaxObservers) \ {<<>>} } }

observed_player_blueprint(observers, on_tran_of_press_s) ==
    StateMachineBlueprint(
        create_player_blueprint.blueprint.aspects,
        create_player_blueprint.blueprint.events,
        << Transition(1, PRESS_W, is_idle, press_w_to_walk, 0, None),
           Transition(2, PRESS_S, is_walking, press_s_to_idle, 0, on_tran_of_press_s) >>,
        observers)

InitObservers ==
    /\ \E observers \in ObserverLists, cb \in {None, Some(Panicking)} :
          blueprint = observed_player_blueprint(observers, cb)
    /\ \E a \in {Idle, Walk} :
          /\ current_state = new(ActionState(a)).current_state
          /\ pending_transition = new(ActionState(a)).pending_transition
    /\ calls = <<>>
    /\ lab = <<>>

ObserversEventHappen(event_id) ==
    /\ Len(calls) < MaxObserverCalls
    /\ Returned("event_happen", event_id, event_happen(blueprint, self, event_id, None))

ObserversTransform ==
    /\ Len(calls) < MaxObserverCalls
    /\ Returned("transform", 0, transform(blueprint, self))

NextObservers ==
    \/ \E event_id \in EventIds : ObserversEventHappen(event_id)
    \/ ObserversTransform

SpecObservers == InitObservers /\ [][NextObservers]_vars

\* the state the runtime was constructed with
InitialState == IF calls = <<>> THEN current_state ELSE calls[1].pre.current_state

\* the on_enter / on_exit invocations of the i-th observer in the first k
\* calls, in order
RECURSIVE ObserverLog(_, _)
ObserverLog(i, k) ==
    IF k = 0 THEN <<>>
    ELSE ObserverLog(i, k - 1) \o
         SelectSeq([a \in 1..Len(calls[k].fired) |->
                       IF calls[k].fired[a].observer = i
                       THEN calls[k].fired[a].kind ELSE "other"],
                   LAMBDA kind : kind \in {"on_enter", "on_exit"})

\* the log alternates, its last entry tells whether current_state is in the
\* region, and an observer that starts inside its region is first told on_exit
WellPaired(i) ==
    LET log == ObserverLog(i, Len(calls))
        region == Observers[i].region
    IN /\ \A j \in 1..(Len(log) - 1) : log[j] /= log[j + 1]
       /\ log /= <<>> =>
             /\ (log[Len(log)] = "on_enter") <=> contains(region, current_state)
             /\ contains(region, InitialState) => log[1] = "on_exit"

BothCallbacks(i) == IsSome(Observers[i].on_enter) /\ IsSome(Observers[i].on_exit)

OtherAspect(event_id) ==
    IF event_id \in {PRESS_W, PRESS_S} THEN HUNGER_ASPECT_ID ELSE ACTION_ASPECT_ID

\* the k-th event (event_happen, then transform) has been run
RanEvent(k) ==
    /\ Len(calls) >= 2 * k
    /\ calls[2 * k - 1].op = "event_happen"
    /\ calls[2 * k].op = "transform"

(***************************************************************************)
(* C26: in the merged action+hunger machine the action events (PressW,     *)
(* PressS) leave the hunger aspect unchanged and the hunger events (Eat,   *)
(* Starve) leave the action aspect unchanged: in every event that is run,  *)
(* and for the transfer of every transition on every state that has both   *)
(* aspects.                                                                *)
(***************************************************************************)
C26_EventsLeaveOtherAspect ==
    BuiltFrom(create_merged_blueprint) =>
        /\ \A k \in 1..MaxEvents :
              RanEvent(k) =>
                  LET aspect == OtherAspect(calls[2 * k - 1].event_id)
                  IN get(calls[2 * k].post.current_state, aspect)
                         = get(calls[2 * k - 1].pre.current_state, aspect)
        /\ \A i \in 1..Len(Transitions) :
              \A s \in {x \in TestState : DOMAIN x = {ACTION_ASPECT_ID, HUNGER_ASPECT_ID}} :
                  LET aspect == OtherAspect(Transitions[i].event_id)
                  IN get(apply(Transitions[i].transfer, s), aspect) = get(s, aspect)

\* an action event changed the action and a hunger event changed the hunger
\* of the merged machine
C26_Witness ==
    /\ BuiltFrom(create_merged_blueprint)
    /\ \E j, k \in 1..MaxEvents :
          /\ RanEvent(j) /\ RanEvent(k)
          /\ calls[2 * j - 1].event_id = PRESS_W
          /\ get(calls[2 * j].post.current_state, ACTION_ASPECT_ID)
                /= get(calls[2 * j].pre.current_state, ACTION_ASPECT_ID)
          /\ get(calls[2 * j].post.current_state, HUNGER_ASPECT_ID) = Some(10)
          /\ calls[2 * k - 1].event_id = STARVE
          /\ get(calls[2 * k].post.current_state, HUNGER_ASPECT_ID)
                /= get(calls[2 * k].pre.current_state, HUNGER_ASPECT_ID)
          /\ get(calls[2 * k].post.current_state, ACTION_ASPECT_ID)
                = get(calls[2 * k].pre.current_state, ACTION_ASPECT_ID)


\* the hunger aspect of a state of the hunger machine
Hunger(s) == s[HUNGER_ASPECT_ID]

(***************************************************************************)
(* C27: in the hunger machine started at hunger 10, after any sequence of  *)
(* Eat and Starve events hunger is within 0..20: both events are staged in *)
(* every state, Eat sets hunger to min(hunger + 5, 20) and Starve sets it  *)
(* to max(hunger - 1, 0).                                                  *)
(***************************************************************************)
C27_HungerStaysInRange ==
    BuiltFrom(create_hunger_blueprint) =>
        /\ DOMAIN current_state = {HUNGER_ASPECT_ID}
        /\ Hunger(current_state) \in 0..20
        /\ \A k \in 1..MaxHungerEvents :
              RanEvent(k) =>
                  LET event_id == calls[2 * k - 1].event_id
                      before == Hunger(calls[2 * k - 1].pre.current_state)
                      after == Hunger(calls[2 * k].post.current_state)
                  IN /\ calls[2 * k - 1].post.pending_transition /= None
                     /\ event_id = EAT =>
                           after = (IF before + 5 <= 20 THEN before + 5 ELSE 20)
                     /\ event_id = STARVE =>
                           after = (IF before - 1 >= 0 THEN before - 1 ELSE 0)

\* ten Starve events brought hunger from 10 to 0 and one more left it at 0
C27_Witness ==
    /\ BuiltFrom(create_hunger_blueprint)
    /\ Starved(11)
    /\ Hunger(calls[20].post.current_state) = 0
    /\ Hunger(calls[21].pre.current_state) = 0
    /\ calls[21].post.pending_transition /= None
    /\ Len(calls) = 22
    /\ Hunger(current_state) = 0


(***************************************************************************)
(* A runtime built from a.merge(&b), where a and b declare transitions of  *)
(* the same event and observers of the same regions.                       *)
(***************************************************************************)
\* transitions of PressW: two that are always enabled and one of higher
\* priority that is enabled at value 0
OperandTransitions ==
    { Transition(0, PRESS_W, always, set_value(1), 0, None),
      Transition(0, PRESS_W, always, set_value(0), 0, None),
      Transition(0, PRESS_W, is_value(0), set_value(1), 1, None) }

OperandObservers ==
    { StateObserver(0, is_value(0), Some(Returns), Some(Returns)),
      StateObserver(0, is_value(1), Some(Returns), Some(Returns)) }

\* the declarations of one blueprint are numbered from its own base, so that
\* the two operands use different ids
Numbered(items, base) == [i \in DOMAIN items |-> [items[i] EXCEPT !.id = base + i]]

Operands(base) ==
    { StateMachineBlueprint(EmptyMap, EmptyMap, Numbered(ts, base), Numbered(os, base)) :
        ts \in SeqsUpTo(OperandTransitions, MaxOperandItems),
        os \in SeqsUpTo(OperandObservers, MaxOperandItems) }

InitMerged ==
    /\ \E a \in Operands(0), b \in Operands(10) :
          /\ lab = [a |-> a, b |-> b]
          /\ blueprint = call_merge(a, b).returned
    /\ \E initial_state \in State :
          /\ current_state = new(initial_state).current_state
          /\ pending_transition = new(initial_state).pending_transition
    /\ calls = <<>>

MergedEventHappen(event_id) ==
    /\ Len(calls) < 2 * MaxMergedEvents
    /\ IF calls = <<>> THEN TRUE ELSE calls[Len(calls)].op = "transform"
    /\ Returned("event_happen", event_id, event_happen(blueprint, self, event_id, None))

MergedTransform ==
    /\ calls /= <<>>
    /\ calls[Len(calls)].op = "event_happen"
    /\ Returned("transform", 0, transform(blueprint, self))

NextMerged ==
    \/ \E event_id \in EventIds : MergedEventHappen(event_id)
    \/ MergedTransform

SpecMerged == InitMerged /\ [][NextMerged]_vars

\* the transitions of a list that match the event with a satisfied guard
EligibleOf(ts, e, s) ==
    {i \in 1..Len(ts) : ts[i].event_id = e /\ ts[i].guard.predicate[s]}

\* the highest priority among the given transitions of a list
Top(ts, I) == CHOOSE p \in {ts[i].priority : i \in I} : \A i \in I : ts[i].priority <= p

IdsOf(items) == {items[i].id : i \in 1..Len(items)}

\* in the callbacks of the given kind fired by a call, no observer of b comes
\* before an observer of a
OperandOrder(c, kind) ==
    \A x, y \in 1..Len(c.fired) :
        /\ c.fired[x].kind = kind /\ c.fired[y].kind = kind
        /\ Observers[c.fired[x].observer].id \in IdsOf(lab.a.observers)
        /\ Observers[c.fired[y].observer].id \in IdsOf(lab.b.observers)
        => x < y

(***************************************************************************)
(* C28: in a runtime built from a.merge(b), when a transition of a and a   *)
(* transition of b both match the event with satisfied guards and equal    *)
(* maximum priority, a's transition is staged; and within one transform()  *)
(* the exiting (resp. entering) observers of a fire before the exiting     *)
(* (resp. entering) observers of b.                                        *)
(***************************************************************************)
C28_ReceiverFirstInMergedRuntime ==
    \A k \in 1..Len(calls) :
        LET c == calls[k]
            A == EligibleOf(lab.a.transitions, c.event_id, c.pre.current_state)
            B == EligibleOf(lab.b.transitions, c.event_id, c.pre.current_state)
        IN /\ (Resolved(c) /\ A /= {} /\ B /= {}
                  /\ Top(lab.a.transitions, A) = Top(lab.b.transitions, B)) =>
                 \E i \in A : c.post.pending_transition = Some(lab.a.transitions[i])
           /\ Committed(c) => OperandOrder(c, "on_exit") /\ OperandOrder(c, "on_enter")

\* a's and b's transitions tied and a's was staged; the transform() made an
\* observer of a and an observer of b exit, a's first
C28_Witness ==
    /\ Len(calls) = 2
    /\ Resolved(calls[1])
    /\ EligibleOf(lab.a.transitions, calls[1].event_id, calls[1].pre.current_state) /= {}
    /\ EligibleOf(lab.b.transitions, calls[1].event_id, calls[1].pre.current_state) /= {}
    /\ lab.a.transitions[1].priority = lab.b.transitions[1].priority
    /\ lab.a.transitions[1].transfer /= lab.b.transitions[1].transfer
    /\ calls[1].post.pending_transition = Some(lab.a.transitions[1])
    /\ Committed(calls[2])
    /\ Len(calls[2].fired) = 2
    /\ calls[2].fired[1].kind = "on_exit"
    /\ calls[2].fired[2].kind = "on_exit"
    /\ Observers[calls[2].fired[1].observer].id \in IdsOf(lab.a.observers)
    /\ Observers[calls[2].fired[2].observer].id \in IdsOf(lab.b.observers)


(***************************************************************************)
(* Two runtimes side by side: the second is built from a clone of the      *)
(* blueprint and the same initial state, and receives the same calls.      *)
(***************************************************************************)
InitTwins ==
    /\ blueprint \in Blueprints
    /\ \E initial_state \in State :
          /\ current_state = new(initial_state).current_state
          /\ pending_transition = new(initial_state).pending_transition
          /\ lab = [blueprint |-> clone(blueprint),
                    runtime |-> new(initial_state),
                    calls |-> <<>>]
    /\ calls = <<>>

\* the call is made on both runtimes
ReturnedTwice(op, event_id, out, twin_out) ==
    /\ current_state' = out.rt.current_state
    /\ pending_transition' = out.rt.pending_transition
    /\ calls' = Append(calls, Call(op, event_id, out))
    /\ lab' = [lab EXCEPT
                 !.runtime = twin_out.rt,
                 !.calls = Append(@, [op |-> op, event_id |-> event_id,
                                      pre |-> lab.runtime, post |-> twin_out.rt,
                                      fired |-> twin_out.fired,
                                      unwound |-> twin_out.unwound])]
    /\ UNCHANGED blueprint

TwinsEventHappen(event_id, payload) ==
    /\ Len(calls) < MaxTwinCalls
    /\ ReturnedTwice("event_happen", event_id,
                     event_happen(blueprint, self, event_id, payload),
                     event_happen(lab.blueprint, lab.runtime, event_id, payload))

TwinsTransform ==
    /\ Len(calls) < MaxTwinCalls
    /\ ReturnedTwice("transform", 0,
                     transform(blueprint, self),
                     transform(lab.blueprint, lab.runtime))

NextTwins ==
    \/ \E event_id \in EventIds, payload \in Payloads : TwinsEventHappen(event_id, payload)
    \/ TwinsTransform

SpecTwins == InitTwins /\ [][NextTwins]_vars

C30_PartitionIsWithinA ==
    lab.returned /= None =>
        \A s \in State :
            /\ Gives(lab.a, s, FALSE) =>
                  Gives(in_b, s, FALSE) /\ Gives(not_in_b, s, FALSE)
            /\ (~containsUnwinds(lab.a, s) /\ ~TargetUnwinds(s)) =>
                  /\ ~containsUnwinds(in_b, s)
                  /\ ~containsUnwinds(not_in_b, s)
                  /\ ~(contains(in_b, s) /\ contains(not_in_b, s))
                  /\ (contains(in_b, s) \/ contains(not_in_b, s)) <=> contains(lab.a, s)

\* a is false on a state where f would panic and both returned ranges return
\* false there; on another state a holds and so does one of them
C30_Witness ==
    /\ lab.returned /= None
    /\ \E s, t \in State :
          /\ Gives(lab.a, s, FALSE)
          /\ applyUnwinds(lab.f, s)
          /\ Gives(in_b, s, FALSE)
          /\ Gives(not_in_b, s, FALSE)
          /\ Gives(lab.a, t, TRUE)
          /\ Gives(in_b, t, TRUE)
          /\ Gives(not_in_b, t, FALSE)


(***************************************************************************)
(* utils::tool::split_blueprint_by_forbidden_region, and a runtime built   *)
(* from one of the two blueprints it returns.                              *)
(***************************************************************************)
\* Transition { guard: .., ..t }
with_guard(t, guard) == [t EXCEPT !.guard = guard]

\* faulty variant: the two blueprints are returned in the other order
split_blueprint_by_forbidden_region_swapped(bp, forbidden) ==
    << [bp EXCEPT !.transitions =
           [i \in DOMAIN @ |->
               with_guard(@[i],
                          partition_range_by_transfer_target(
                              @[i].guard, forbidden, @[i].transfer)[2])]],
       [bp EXCEPT !.transitions =
           [i \in DOMAIN @ |->
               with_guard(@[i],
                          partition_range_by_transfer_target(
                              @[i].guard, forbidden, @[i].transfer)[1])]] >>

\* (into_forbidden, not_into_forbidden): clones of the blueprint whose
\* transitions carry the first, resp. the second, range of the partition of
\* their guard
split_blueprint_by_forbidden_region(bp, forbidden) ==
    << [bp EXCEPT !.transitions =
           [i \in DOMAIN @ |->
               with_guard(@[i],
                          partition_range_by_transfer_target(
                              @[i].guard, forbidden, @[i].transfer)[1])]],
       [bp EXCEPT !.transitions =
           [i \in DOMAIN @ |->
               with_guard(@[i],
                          partition_range_by_transfer_target(
                              @[i].guard, forbidden, @[i].transfer)[2])]] >>

SplitBlueprints ==
    { StateMachineBlueprint(
          [a \in {ACTION_ASPECT_ID} |-> StateAspect(a, "Action")],
          [e \in {PRESS_W, PRESS_S} |-> EventDef(e, "()")],
          Declared(ts), Declared(os)) :
        ts \in SeqsUpTo(TransitionLib, MaxTransitions),
        os \in SeqsUpTo(ObserverLib, MaxOperandItems) }

\* the forbidden regions: one value of the aspect, tested with a checked or
\* an unchecked access
ForbiddenRegions ==
    {is_value(v) : v \in 0..MaxValue} \cup {unchecked_is_value(v) : v \in 0..MaxValue}

InitSplit ==
    /\ blueprint \in SplitBlueprints
    /\ \E initial_state \in State :
          /\ current_state = new(initial_state).current_state
          /\ pending_transition = new(initial_state).pending_transition
    /\ calls = <<>>
    /\ \E forbidden \in ForbiddenRegions :
          lab = [bp |-> blueprint, forbidden |-> forbidden,
                 returned |-> None, running |-> 0]

\* let (into, not_into) = split_blueprint_by_forbidden_region(bp, forbidden);
\* the runtime is then built from the chosen one of the two
Split(running) ==
    /\ lab.returned = None
    /\ LET returned == split_blueprint_by_forbidden_region(lab.bp, lab.forbidden)
       IN /\ lab' = [lab EXCEPT !.returned = Some(returned), !.running = running]
          /\ blueprint' = returned[running]
    /\ UNCHANGED <<current_state, pending_transition, calls>>

SplitEventHappen(event_id) ==
    /\ lab.returned /= None
    /\ Len(calls) < 2 * MaxSplitEvents
    /\ IF calls = <<>> THEN TRUE ELSE calls[Len(calls)].op = "transform"
    /\ Returned("event_happen", event_id, event_happen(blueprint, self, event_id, None))

SplitTransform ==
    /\ lab.returned /= None
    /\ calls /= <<>>
    /\ calls[Len(calls)].op = "event_happen"
    /\ Returned("transform", 0, transform(blueprint, self))

NextSplit ==
    \/ \E running \in {1, 2} : Split(running)
    \/ \E event_id \in EventIds : SplitEventHappen(event_id)
    \/ SplitTransform

SpecSplit == InitSplit /\ [][NextSplit]_vars

into_forbidden == Unwrap(lab.returned)[1]
not_into_forbidden == Unwrap(lab.returned)[2]

\* the blueprint differs from bp in the guards of its transitions at most
OnlyGuardsChanged(result, bp) ==
    /\ result.aspects = bp.aspects
    /\ result.events = bp.events
    /\ result.observers = bp.observers
    /\ Len(result.transitions) = Len(bp.transitions)
    /\ \A i \in 1..Len(bp.transitions) :
          with_guard(result.transitions[i], bp.transitions[i].guard) = bp.transitions[i]

(***************************************************************************)
(* C31: for split_blueprint_by_forbidden_region(bp, forbidden) =           *)
(* (into, not_into), both results keep bp's aspects, events, observers and *)
(* the transitions' ids, events, transfers, priorities and order, changing *)
(* only guards; a runtime running not_into never commits a transition      *)
(* whose post-state lies in forbidden, so a runtime started outside        *)
(* forbidden stays outside; a runtime running into commits only            *)
(* transitions whose post-state lies in forbidden.                         *)
(***************************************************************************)
C31_SplitKeepsOutOfOrInsideForbidden ==
    lab.returned /= None =>
        /\ OnlyGuardsChanged(into_forbidden, lab.bp)
        /\ OnlyGuardsChanged(not_into_forbidden, lab.bp)
        /\ \A k \in 1..Len(calls) :
              Committed(calls[k]) =>
                  Gives(lab.forbidden, calls[k].post.current_state, lab.running = 1)
        /\ (lab.running = 2 /\ Gives(lab.forbidden, InitialState, FALSE)) =>
              Gives(lab.forbidden, current_state, FALSE)

\* bp has two transitions of one event whose guards hold in the initial
\* state, one of which leads into the forbidden region; the runtime of
\* not_into staged and committed the other one and is outside the region
C31_Witness ==
    /\ lab.returned /= None
    /\ lab.running = 2
    /\ Len(calls) = 2
    /\ Committed(calls[2])
    /\ Gives(lab.forbidden, InitialState, FALSE)
    /\ Gives(lab.forbidden, current_state, FALSE)
    /\ \E i, j \in 1..Len(lab.bp.transitions) :
          /\ i /= j
          /\ lab.bp.transitions[i].event_id = calls[1].event_id
          /\ Satisfied(lab.bp.transitions[i], InitialState)
          /\ ~applyUnwinds(lab.bp.transitions[i].transfer, InitialState)
          /\ Gives(lab.forbidden,
                   apply(lab.bp.transitions[i].transfer, InitialState), TRUE)
          /\ ~Satisfied(Transitions[i], InitialState)
          /\ calls[1].post.pending_transition = Some(Transitions[j])

====
